---------------------------- MODULE Spec2Model ----------------------------
(***************************************************************************)
(* gcp-helper: thin helper classes over the Google Cloud client libraries  *)
(* (BigQuery, Pub/Sub, Cloud Storage, Bigtable, Memorystore, Kubernetes).  *)
(*                                                                         *)
(* The state is the state of the backends the helpers talk to, the         *)
(* position of the single synchronous caller inside a helper method (pc),  *)
(* and the outcome of the last completed call (last).  Every helper method *)
(* is one action, except the methods that wait on a backend operation or   *)
(* that issue two backend mutations in a row: those are split at the       *)
(* points where the backend state is observable in between.                *)
(***************************************************************************)
EXTENDS Integers, Sequences, FiniteSets, TLC

VARIABLES
    pc,             \* position of the caller: "idle" or inside a method
    frame,          \* locals of the method the caller is inside (None when idle)
    last,           \* the last completed call and its outcome
    bq_datasets,    \* BigQuery: dataset id -> stored dataset
    bq_tables,      \* BigQuery: <<dataset, table>> -> stored table or view
    bq_clock,       \* BigQuery: creation stamp handed to the next resource
    bq_jobs,        \* BigQuery: load jobs, in submission order
    topics,         \* Pub/Sub: topics that exist
    subscriptions,  \* Pub/Sub: subscription id -> topic id
    published,      \* Pub/Sub: payloads by message id (index)
    backlog,        \* Pub/Sub: <<subscription, message id>> not yet acknowledged
    acked,          \* Pub/Sub: <<subscription, message id>> acknowledged
    processed,      \* caller: <<subscription, message id>> consumed by the caller
    lost,           \* caller: <<subscription, message id>> returned but dropped
    buckets,        \* Storage: buckets that exist
    blobs,          \* Storage: <<bucket, blob name>> -> content
    bt_instances,   \* Bigtable: instance id -> "CREATING" | "READY"
    bt_tables,      \* Bigtable: <<instance, table>> that exist
    redis,          \* Memorystore: instance id -> "CREATING" | "READY" | "DELETING"
    pods,           \* Kubernetes: <<namespace, pod name>> that exist
    deployments,    \* Kubernetes: <<namespace, deployment name>> that exist
    extractor,      \* Archive: the ZipExtractor the caller holds, if any
    fs_dirs,        \* Filesystem: directories the extractor created
    fs_files        \* Filesystem: path -> content of files the extractor wrote

vars == <<pc, frame, last, bq_datasets, bq_tables, bq_clock, bq_jobs, topics,
          subscriptions, published, backlog, acked, processed, lost,
          buckets, blobs, bt_instances, bt_tables, redis, pods,
          deployments, extractor, fs_dirs, fs_files>>

bqVars     == <<bq_datasets, bq_tables, bq_clock, bq_jobs>>
pubsubVars == <<topics, subscriptions, published, backlog, acked,
                processed, lost>>
gcsVars    == <<buckets, blobs>>
btVars     == <<bt_instances, bt_tables>>
k8sVars    == <<pods, deployments>>
zipVars    == <<extractor, fs_dirs, fs_files>>

---------------------------------------------------------------------------
(* Bounds of the model.                                                    *)

MaxVersion == 3     \* creations the warehouse performs in one run
MaxJobs    == 2     \* load jobs submitted in one run
MaxMsgs    == 2     \* messages published in one run

---------------------------------------------------------------------------
(* Values.                                                                 *)

NoneVal == "None"   \* Python's None

EmptyMap == [x \in {} |-> NoneVal]

Put(f, k, v) == [x \in (DOMAIN f) \cup {k} |-> IF x = k THEN v ELSE f[x]]

Remove(f, k) == [x \in (DOMAIN f) \ {k} |-> f[x]]

Presence(b) == IF b THEN "Present" ELSE "Absent"

NoCall == [op |-> "none", args |-> <<>>, status |-> "none", value |-> NoneVal,
           pre |-> "n/a", prev |-> <<"none", <<>>, "none">>]

\* The record of a completed call: the method, its arguments, how it ended
\* ("ok" or the exception raised), what it returned, the state of the target
\* before the call, and the call that preceded it.
Call(op, args, status, value, pre) ==
    [op |-> op, args |-> args, status |-> status, value |-> value,
     pre |-> pre, prev |-> <<last.op, last.args, last.status>>]

\* The caller holds no extractor.
NoExtractor == [bound |-> FALSE]

Init ==
    /\ pc = "idle"
    /\ frame = NoneVal
    /\ last = NoCall
    /\ bq_datasets = EmptyMap
    /\ bq_tables = EmptyMap
    /\ bq_clock = 0
    /\ bq_jobs = <<>>
    /\ topics = {}
    /\ subscriptions = EmptyMap
    /\ published = <<>>
    /\ backlog = {}
    /\ acked = {}
    /\ processed = {}
    /\ lost = {}
    /\ buckets = {}
    /\ blobs = EmptyMap
    /\ bt_instances = EmptyMap
    /\ bt_tables = {}
    /\ redis = EmptyMap
    /\ pods = {}
    /\ deployments = {}
    /\ extractor = NoExtractor
    /\ fs_dirs = {}
    /\ fs_files = EmptyMap

---------------------------------------------------------------------------
(* BigQuery: BigQueryClientHelper (src/bigquery.py).  The methods are      *)
(* modelled on a helper whose client exists.  Tables and views share one   *)
(* namespace, <<dataset, table>>: create_view and create_table both go     *)
(* through client.create_table.                                            *)

TableRec(schema, partitioning, clustering, query, version) ==
    [kind |-> IF query = NoneVal THEN "TABLE" ELSE "VIEW",
     schema |-> schema, time_partitioning |-> partitioning,
     clustering_fields |-> clustering, view_query |-> query,
     version |-> version, rows |-> 0]

TablesOf(dataset_id) == {t \in DOMAIN bq_tables : t[1] = dataset_id}

\* client.create_dataset(dataset, exists_ok=True): the Conflict of an
\* existing dataset is swallowed and the stored dataset is returned.
ClientCreateDataset(dataset_id) ==
    IF dataset_id \in DOMAIN bq_datasets
    THEN [status |-> "ok", value |-> bq_datasets[dataset_id],
          datasets |-> bq_datasets, clock |-> bq_clock]
    ELSE LET d == [id |-> dataset_id, version |-> bq_clock + 1]
         IN  [status |-> "ok", value |-> d,
              datasets |-> Put(bq_datasets, dataset_id, d),
              clock |-> bq_clock + 1]

bq_create_dataset(dataset_id) ==
    LET r == ClientCreateDataset(dataset_id) IN
    /\ pc = "idle"
    /\ r.clock <= MaxVersion
    /\ bq_datasets' = r.datasets
    /\ bq_clock' = r.clock
    /\ last' = Call("bq.create_dataset", <<dataset_id>>, r.status, r.value,
                    Presence(dataset_id \in DOMAIN bq_datasets))
    /\ UNCHANGED <<pc, frame, bq_tables, bq_jobs, pubsubVars, gcsVars, btVars, redis,
                   k8sVars,
                   zipVars>>

\* client.delete_dataset(id, delete_contents=..., not_found_ok=True): the
\* NotFound of an absent dataset is swallowed; a dataset that still holds
\* tables is refused unless delete_contents is set.
ClientDeleteDataset(dataset_id, delete_contents) ==
    IF dataset_id \notin DOMAIN bq_datasets
    THEN [status |-> "ok", datasets |-> bq_datasets, tables |-> bq_tables]
    ELSE IF TablesOf(dataset_id) # {} /\ ~delete_contents
    THEN [status |-> "BadRequest", datasets |-> bq_datasets,
          tables |-> bq_tables]
    ELSE [status |-> "ok", datasets |-> Remove(bq_datasets, dataset_id),
          tables |-> [t \in (DOMAIN bq_tables) \ TablesOf(dataset_id)
                        |-> bq_tables[t]]]

bq_delete_dataset(dataset_id, delete_contents) ==
    LET r == ClientDeleteDataset(dataset_id, delete_contents) IN
    /\ pc = "idle"
    /\ bq_datasets' = r.datasets
    /\ bq_tables' = r.tables
    /\ last' = Call("bq.delete_dataset", <<dataset_id>>, r.status, NoneVal,
                    Presence(dataset_id \in DOMAIN bq_datasets))
    /\ UNCHANGED <<pc, frame, bq_clock, bq_jobs, pubsubVars, gcsVars, btVars, redis,
                   k8sVars,
                   zipVars>>

\* A mutation of ClientCreateTable: the existing table is replaced by the
\* requested one (a create that forgets exists_ok and overwrites).
ClientCreateTableOverwrite(tid, rec) ==
    IF tid[1] \notin DOMAIN bq_datasets
    THEN [status |-> "NotFound", value |-> NoneVal, tables |-> bq_tables,
          clock |-> bq_clock]
    ELSE LET t == [rec EXCEPT !.version = bq_clock + 1]
         IN  [status |-> "ok", value |-> t, tables |-> Put(bq_tables, tid, t),
              clock |-> bq_clock + 1]

\* client.create_table(table, exists_ok=True): NotFound when the dataset is
\* absent; the Conflict of an existing table (or view) of that id is
\* swallowed and the stored resource is returned, whatever its spec.
ClientCreateTable(tid, rec) ==
    IF tid[1] \notin DOMAIN bq_datasets
    THEN [status |-> "NotFound", value |-> NoneVal, tables |-> bq_tables,
          clock |-> bq_clock]
    ELSE IF tid \in DOMAIN bq_tables
    THEN [status |-> "ok", value |-> bq_tables[tid], tables |-> bq_tables,
          clock |-> bq_clock]
    ELSE LET t == [rec EXCEPT !.version = bq_clock + 1]
         IN  [status |-> "ok", value |-> t, tables |-> Put(bq_tables, tid, t),
              clock |-> bq_clock + 1]

bq_create_table(dataset_name, table_name, schema, partition_field, cluster_fields) ==
    LET tid == <<dataset_name, table_name>>
        r == ClientCreateTable(tid, TableRec(schema, partition_field,
                                             cluster_fields, NoneVal, 0))
    IN
    /\ pc = "idle"
    /\ r.clock <= MaxVersion
    /\ bq_tables' = r.tables
    /\ bq_clock' = r.clock
    /\ last' = Call("bq.create_table",
                    <<dataset_name, table_name, schema, partition_field,
                      cluster_fields>>,
                    r.status, r.value, Presence(tid \in DOMAIN bq_tables))
    /\ UNCHANGED <<pc, frame, bq_datasets, bq_jobs, pubsubVars, gcsVars, btVars,
                   redis, k8sVars,
                   zipVars>>

\* create_view returns nothing: the value of the call is None.
bq_create_view(dataset_name, view_name, query) ==
    LET tid == <<dataset_name, view_name>>
        r == ClientCreateTable(tid, TableRec(NoneVal, NoneVal, NoneVal,
                                             query, 0))
    IN
    /\ pc = "idle"
    /\ r.clock <= MaxVersion
    /\ bq_tables' = r.tables
    /\ bq_clock' = r.clock
    /\ last' = Call("bq.create_view", <<dataset_name, view_name, query>>,
                    r.status, NoneVal, Presence(tid \in DOMAIN bq_tables))
    /\ UNCHANGED <<pc, frame, bq_datasets, bq_jobs, pubsubVars, gcsVars, btVars,
                   redis, k8sVars,
                   zipVars>>

\* client.delete_table(id, not_found_ok=True): NotFound is swallowed.
ClientDeleteTable(tid) ==
    [status |-> "ok", tables |-> Remove(bq_tables, tid)]

bq_delete_table(dataset_name, table_name) ==
    LET tid == <<dataset_name, table_name>>
        r == ClientDeleteTable(tid)
    IN
    /\ pc = "idle"
    /\ bq_tables' = r.tables
    /\ last' = Call("bq.delete_table", <<dataset_name, table_name>>,
                    r.status, NoneVal, Presence(tid \in DOMAIN bq_tables))
    /\ UNCHANGED <<pc, frame, bq_datasets, bq_clock, bq_jobs, pubsubVars, gcsVars,
                   btVars, redis, k8sVars,
                   zipVars>>

bq_delete_view(dataset_name, view_name) ==
    LET tid == <<dataset_name, view_name>>
        r == ClientDeleteTable(tid)
    IN
    /\ pc = "idle"
    /\ bq_tables' = r.tables
    /\ last' = Call("bq.delete_view", <<dataset_name, view_name>>,
                    r.status, NoneVal, Presence(tid \in DOMAIN bq_tables))
    /\ UNCHANGED <<pc, frame, bq_datasets, bq_clock, bq_jobs, pubsubVars, gcsVars,
                   btVars, redis, k8sVars,
                   zipVars>>

---------------------------------------------------------------------------
(* Pub/Sub lifecycle: PubSubClientHelper (src/pubsub.py).  The publisher   *)
(* and subscriber clients take no exists-ok / not-found-ok option: the     *)
(* broker's AlreadyExists and NotFound reach the caller.                   *)

PublisherCreateTopic(topic_id) ==
    IF topic_id \in topics
    THEN [status |-> "AlreadyExists", value |-> NoneVal, topics |-> topics]
    ELSE [status |-> "ok", value |-> topic_id,
          topics |-> topics \cup {topic_id}]

create_topic(topic_id) ==
    LET r == PublisherCreateTopic(topic_id) IN
    /\ pc = "idle"
    /\ topics' = r.topics
    /\ last' = Call("pubsub.create_topic", <<topic_id>>, r.status, r.value,
                    Presence(topic_id \in topics))
    /\ UNCHANGED <<pc, frame, bqVars, subscriptions, published, backlog, acked,
                   processed, lost, gcsVars, btVars, redis, k8sVars,
                   zipVars>>

\* Deleting a topic leaves its subscriptions in place, with their backlog:
\* they are detached (the broker shows their topic as _deleted-topic_), and a
\* topic created later under the same id does not feed them.
PublisherDeleteTopic(topic_id) ==
    IF topic_id \notin topics
    THEN [status |-> "NotFound", topics |-> topics,
          subscriptions |-> subscriptions]
    ELSE [status |-> "ok", topics |-> topics \ {topic_id},
          subscriptions |->
              [sb \in DOMAIN subscriptions |->
                  IF subscriptions[sb] = topic_id THEN "_deleted-topic_"
                  ELSE subscriptions[sb]]]

delete_topic(topic_id) ==
    LET r == PublisherDeleteTopic(topic_id) IN
    /\ pc = "idle"
    /\ topics' = r.topics
    /\ subscriptions' = r.subscriptions
    /\ last' = Call("pubsub.delete_topic", <<topic_id>>, r.status, NoneVal,
                    Presence(topic_id \in topics))
    /\ UNCHANGED <<pc, frame, bqVars, published, backlog, acked, processed,
                   lost, gcsVars, btVars, redis, k8sVars,
                   zipVars>>

SubscriberCreateSubscription(topic_id, subscription_id) ==
    IF subscription_id \in DOMAIN subscriptions
    THEN [status |-> "AlreadyExists", value |-> NoneVal,
          subscriptions |-> subscriptions]
    ELSE IF topic_id \notin topics
    THEN [status |-> "NotFound", value |-> NoneVal,
          subscriptions |-> subscriptions]
    ELSE [status |-> "ok", value |-> <<subscription_id, topic_id>>,
          subscriptions |-> Put(subscriptions, subscription_id, topic_id)]

create_subscription(topic_id, subscription_id) ==
    LET r == SubscriberCreateSubscription(topic_id, subscription_id) IN
    /\ pc = "idle"
    /\ subscriptions' = r.subscriptions
    /\ last' = Call("pubsub.create_subscription", <<topic_id, subscription_id>>,
                    r.status, r.value,
                    Presence(subscription_id \in DOMAIN subscriptions))
    /\ UNCHANGED <<pc, frame, bqVars, topics, published, backlog, acked,
                   processed, lost, gcsVars, btVars, redis, k8sVars,
                   zipVars>>

\* Deleting a subscription discards its backlog.
SubscriberDeleteSubscription(subscription_id) ==
    IF subscription_id \notin DOMAIN subscriptions
    THEN [status |-> "NotFound", subscriptions |-> subscriptions,
          backlog |-> backlog]
    ELSE [status |-> "ok",
          subscriptions |-> Remove(subscriptions, subscription_id),
          backlog |-> {b \in backlog : b[1] # subscription_id}]

delete_subscription(subscription_id) ==
    LET r == SubscriberDeleteSubscription(subscription_id) IN
    /\ pc = "idle"
    /\ subscriptions' = r.subscriptions
    /\ backlog' = r.backlog
    /\ last' = Call("pubsub.delete_subscription", <<subscription_id>>,
                    r.status, NoneVal,
                    Presence(subscription_id \in DOMAIN subscriptions))
    /\ UNCHANGED <<pc, frame, bqVars, topics, published, acked, processed, lost,
                   gcsVars, btVars, redis, k8sVars,
                   zipVars>>

---------------------------------------------------------------------------
(* Pub/Sub messaging: publish_message and pull_messages (src/pubsub.py).   *)
(* A message is identified by its id, its index in published; within one   *)
(* subscription the acknowledgment token of a delivery is modelled by      *)
(* <<subscription, message id>>.                                           *)

Encode(message) == [utf8 |-> message]      \* message.encode("utf-8")

Decode(data) == data.utf8                  \* data.decode("utf-8")

\* publisher.publish(...).result(): NotFound when the topic is absent;
\* otherwise the broker stores the message, hands it to every subscription
\* attached to the topic and returns its id.
publish_message(topic_id, message) ==
    /\ pc = "idle"
    /\ Len(published) < MaxMsgs
    /\ IF topic_id \notin topics
       THEN /\ last' = Call("pubsub.publish_message", <<topic_id, message>>,
                            "NotFound", NoneVal, "Absent")
            /\ UNCHANGED <<published, backlog>>
       ELSE LET message_id == Len(published) + 1 IN
            /\ published' = Append(published, Encode(message))
            /\ backlog' = backlog \cup
                   {<<sb, message_id>> :
                        sb \in {x \in DOMAIN subscriptions :
                                    subscriptions[x] = topic_id}}
            /\ last' = Call("pubsub.publish_message", <<topic_id, message>>,
                            "ok", message_id, "Present")
    /\ UNCHANGED <<pc, frame, bqVars, topics, subscriptions, acked, processed,
                   lost, gcsVars, btVars, redis, k8sVars,
                   zipVars>>

RECURSIVE SortedSeq(_)
\* The elements of a set of numbers as a sequence, ascending.
SortedSeq(S) ==
    IF S = {} THEN <<>>
    ELSE LET m == CHOOSE x \in S : \A y \in S : x <= y
         IN  <<m>> \o SortedSeq(S \ {m})

\* response.received_messages for a batch of message ids.
Received(subscription_id, batch) ==
    LET ids == SortedSeq(batch) IN
    [i \in 1..Len(ids) |->
        [ack_id |-> <<subscription_id, ids[i]>>,
         message |-> [message_id |-> ids[i], data |-> published[ids[i]]]]]

\* A mutation of Messages: every payload of the batch is returned twice
\* (the list is extended once per comprehension pass).
MessagesRepeated(received_messages) ==
    [i \in 1..(2 * Len(received_messages)) |->
        Decode(received_messages[((i - 1) % Len(received_messages)) + 1]
                   .message.data)]

\* messages = [msg.message.data.decode("utf-8") for msg in received_messages]
Messages(received_messages) ==
    [i \in 1..Len(received_messages) |->
        Decode(received_messages[i].message.data)]

\* A mutation of AckIds: the first delivery of the batch is not acknowledged.
AckIdsDropFirst(received_messages) ==
    [i \in 1..(Len(received_messages) - 1) |-> received_messages[i + 1].ack_id]

\* A mutation of AckIds: only the first delivery of the batch is acknowledged.
AckIdsFirstOnly(received_messages) ==
    [i \in 1..(IF Len(received_messages) = 0 THEN 0 ELSE 1) |->
        received_messages[i].ack_id]

\* ack_ids = [msg.ack_id for msg in response.received_messages]
AckIds(received_messages) ==
    [i \in 1..Len(received_messages) |-> received_messages[i].ack_id]

Range(q) == {q[i] : i \in 1..Len(q)}

\* subscriber.pull(...): NotFound when the subscription is absent; otherwise
\* the broker answers with a batch of at most max_messages of the
\* subscription's outstanding messages (possibly fewer than are outstanding,
\* possibly none).  The helper then builds messages and ack_ids.
pull_messages_pull(subscription_id, max_messages) ==
    /\ pc = "idle"
    /\ IF subscription_id \notin DOMAIN subscriptions
       THEN /\ last' = Call("pubsub.pull_messages",
                            <<subscription_id, max_messages>>, "NotFound",
                            NoneVal, "Absent")
            /\ UNCHANGED <<pc, frame>>
       ELSE \E batch \in SUBSET {b[2] : b \in {x \in backlog :
                                                 x[1] = subscription_id}} :
              /\ Cardinality(batch) <= max_messages
              /\ LET received_messages == Received(subscription_id, batch) IN
                 frame' = [subscription_id |-> subscription_id,
                           max_messages |-> max_messages,
                           received_messages |-> received_messages,
                           messages |-> Messages(received_messages),
                           ack_ids |-> AckIds(received_messages)]
              /\ pc' = "pull_messages.acknowledge"
              /\ last' = last
    /\ UNCHANGED <<bqVars, pubsubVars, gcsVars, btVars, redis, k8sVars,
                   zipVars>>

\* subscriber.acknowledge(...) and the return.  The broker refuses an
\* acknowledge request that carries no ack id (InvalidArgument); otherwise
\* the acknowledged deliveries leave the subscription for good and the
\* helper returns messages.
pull_messages_acknowledge ==
    /\ pc = "pull_messages.acknowledge"
    /\ IF frame.ack_ids = <<>>
       THEN /\ last' = Call("pubsub.pull_messages",
                            <<frame.subscription_id, frame.max_messages>>,
                            "InvalidArgument", NoneVal, "Present")
            /\ pc' = "idle"
            /\ frame' = NoneVal
            /\ UNCHANGED <<backlog, acked>>
       ELSE /\ backlog' = backlog \ Range(frame.ack_ids)
            /\ acked' = acked \cup Range(frame.ack_ids)
            /\ last' = Call("pubsub.pull_messages",
                            <<frame.subscription_id, frame.max_messages>>,
                            "ok", frame.messages, "Present")
            /\ pc' = "pull_messages.returned"
            /\ frame' = frame
    /\ UNCHANGED <<bqVars, topics, subscriptions, published, processed, lost,
                   gcsVars, btVars, redis, k8sVars,
                   zipVars>>

\* The deliveries of the batch the caller holds.
Delivered(f) ==
    {<<f.subscription_id, f.received_messages[i].message.message_id>> :
        i \in 1..Len(f.received_messages)}

\* The caller consumes the sequence pull_messages returned.
caller_consumes ==
    /\ pc = "pull_messages.returned"
    /\ processed' = processed \cup Delivered(frame)
    /\ pc' = "idle"
    /\ frame' = NoneVal
    /\ UNCHANGED <<last, bqVars, topics, subscriptions, published, backlog,
                   acked, lost, gcsVars, btVars, redis, k8sVars,
                   zipVars>>

\* The process stops inside a method that is split, or before the caller
\* has consumed what pull_messages returned; a new process starts idle.
\* Nothing of the old process survives: a batch it held is dropped.  The
\* backends keep whatever state they were left in.
process_stops ==
    /\ pc # "idle"
    /\ lost' = IF pc = "pull_messages.returned"
               THEN lost \cup Delivered(frame) ELSE lost
    /\ last' = Call("process.stop", <<pc>>, "stopped", frame, "n/a")
    /\ pc' = "idle"
    /\ frame' = NoneVal
    /\ UNCHANGED <<bqVars, topics, subscriptions, published, backlog, acked,
                   processed, gcsVars, btVars, redis, k8sVars,
                   zipVars>>

---------------------------------------------------------------------------
(* Cloud Storage lifecycle: GCSClientHelper (src/storage.py).              *)

BlobsOf(bucket_name) == {b \in DOMAIN blobs : b[1] = bucket_name}

\* storage_client.create_bucket(name): Conflict when the bucket exists.
StorageCreateBucket(bucket_name) ==
    IF bucket_name \in buckets
    THEN [status |-> "Conflict", value |-> NoneVal, buckets |-> buckets]
    ELSE [status |-> "ok", value |-> bucket_name,
          buckets |-> buckets \cup {bucket_name}]

create_bucket(bucket_name) ==
    LET r == StorageCreateBucket(bucket_name) IN
    /\ pc = "idle"
    /\ buckets' = r.buckets
    /\ last' = Call("gcs.create_bucket", <<bucket_name>>, r.status, r.value,
                    Presence(bucket_name \in buckets))
    /\ UNCHANGED <<pc, frame, bqVars, pubsubVars, blobs, btVars, redis, k8sVars,
                   zipVars>>

\* storage_client.get_bucket(name) raises NotFound for an absent bucket;
\* bucket.delete() refuses a bucket that still holds blobs (Conflict).
StorageDeleteBucket(bucket_name) ==
    IF bucket_name \notin buckets
    THEN [status |-> "NotFound", buckets |-> buckets]
    ELSE IF BlobsOf(bucket_name) # {}
    THEN [status |-> "Conflict", buckets |-> buckets]
    ELSE [status |-> "ok", buckets |-> buckets \ {bucket_name}]

delete_bucket(bucket_name) ==
    LET r == StorageDeleteBucket(bucket_name) IN
    /\ pc = "idle"
    /\ buckets' = r.buckets
    /\ last' = Call("gcs.delete_bucket", <<bucket_name>>, r.status, NoneVal,
                    Presence(bucket_name \in buckets))
    /\ UNCHANGED <<pc, frame, bqVars, pubsubVars, blobs, btVars, redis, k8sVars,
                   zipVars>>

\* upload_blob: get_bucket, then the blob is written (overwriting).
upload_blob(bucket_name, content, destination_blob_name) ==
    /\ pc = "idle"
    /\ IF bucket_name \notin buckets
       THEN /\ blobs' = blobs
            /\ last' = Call("gcs.upload_blob",
                            <<bucket_name, destination_blob_name>>,
                            "NotFound", NoneVal, "Absent")
       ELSE /\ blobs' = Put(blobs, <<bucket_name, destination_blob_name>>,
                            content)
            /\ last' = Call("gcs.upload_blob",
                            <<bucket_name, destination_blob_name>>,
                            "ok", NoneVal, "Present")
    /\ UNCHANGED <<pc, frame, bqVars, pubsubVars, buckets, btVars, redis,
                   k8sVars,
                   zipVars>>

---------------------------------------------------------------------------
(* Cloud Storage data movement: move_blob and blob_to_bigquery_table       *)
(* (src/storage.py).  move_blob issues two backend mutations, the copy and *)
(* the delete of the source; blob_to_bigquery_table submits a load job and *)
(* waits for it.                                                           *)

\* A mutation of CopyBlob: the copy is written into the source bucket (the
\* destination bucket is not used).
CopyBlobIntoSourceBucket(bucket_name, blob_name, destination_bucket_name, new_name) ==
    IF <<bucket_name, blob_name>> \notin DOMAIN blobs
    THEN [status |-> "NotFound", blobs |-> blobs]
    ELSE [status |-> "ok",
          blobs |-> Put(blobs, <<bucket_name, new_name>>,
                        blobs[<<bucket_name, blob_name>>])]

\* source_bucket.copy_blob(source_blob, destination_bucket, new_name): the
\* backend answers NotFound when the source object does not exist (nothing
\* is written); otherwise the destination object holds the source's content,
\* replacing what was there.
CopyBlob(bucket_name, blob_name, destination_bucket_name, new_name) ==
    IF <<bucket_name, blob_name>> \notin DOMAIN blobs
    THEN [status |-> "NotFound", blobs |-> blobs]
    ELSE [status |-> "ok",
          blobs |-> Put(blobs, <<destination_bucket_name, new_name>>,
                        blobs[<<bucket_name, blob_name>>])]

\* move_blob up to and including the copy: get_bucket of the source bucket,
\* a local handle for the source blob (no request), get_bucket of the
\* destination bucket, copy_blob.
move_blob_copy(bucket_name, blob_name, destination_bucket_name, destination_blob_name) ==
    LET args == <<bucket_name, blob_name, destination_bucket_name,
                  destination_blob_name>>
        pre == Presence(<<bucket_name, blob_name>> \in DOMAIN blobs)
        r == CopyBlob(bucket_name, blob_name, destination_bucket_name,
                      destination_blob_name)
    IN
    /\ pc = "idle"
    /\ IF bucket_name \notin buckets \/ destination_bucket_name \notin buckets
          \/ r.status # "ok"
       THEN /\ last' = Call("gcs.move_blob", args, "NotFound", NoneVal, pre)
            /\ UNCHANGED <<pc, frame, blobs>>
       ELSE /\ blobs' = r.blobs
            /\ pc' = "move_blob.delete"
            /\ frame' = [source |-> <<bucket_name, blob_name>>,
                         destination |-> <<destination_bucket_name,
                                           destination_blob_name>>,
                         content |-> blobs[<<bucket_name, blob_name>>]]
            /\ last' = last
    /\ UNCHANGED <<bqVars, pubsubVars, buckets, btVars, redis, k8sVars,
                   zipVars>>

\* source_blob.delete() and the return.  The delete request can fail at the
\* backend (failed): move_blob catches nothing and undoes nothing.
move_blob_delete ==
    \E failed \in BOOLEAN :
      /\ pc = "move_blob.delete"
      /\ IF failed \/ frame.source \notin DOMAIN blobs
         THEN /\ blobs' = blobs
              /\ last' = Call("gcs.move_blob",
                              frame.source \o frame.destination,
                              IF failed THEN "ServiceUnavailable"
                              ELSE "NotFound", frame, "Present")
         ELSE /\ blobs' = Remove(blobs, frame.source)
              /\ last' = Call("gcs.move_blob",
                              frame.source \o frame.destination, "ok", frame,
                              "Present")
      /\ pc' = "idle"
      /\ frame' = NoneVal
      /\ UNCHANGED <<bqVars, pubsubVars, buckets, btVars, redis, k8sVars,
                   zipVars>>

\* Whether a delimited-text object fits a table schema: as many values per
\* row as the schema has columns.
Columns(text) ==
    IF text \in {"id:INT64", "1"} THEN 1 ELSE 2

\* What a load job can end with, given the backend state when it runs.  The
\* job configuration is LoadJobConfig(source_format=CSV) and nothing else:
\* no schema, no autodetect, and the create disposition left at the
\* backend's default (CREATE_IF_NEEDED), so a missing table is not a
\* not-found: the job fails for want of a schema ("invalid") and creates
\* nothing.  None is success.
LoadOutcomes(job) ==
    LET noSource == job.uri \notin DOMAIN blobs
        noDataset == job.destination[1] \notin DOMAIN bq_datasets
        noTable == job.destination \notin DOMAIN bq_tables
    IN  IF noSource \/ noDataset \/ noTable
        THEN (IF noSource \/ noDataset THEN {"notFound"} ELSE {})
             \cup (IF ~noDataset /\ noTable THEN {"invalid"} ELSE {})
        ELSE IF bq_tables[job.destination].kind = "VIEW"
                \/ Columns(blobs[job.uri])
                     # Columns(bq_tables[job.destination].schema)
        THEN {"invalid"}
        ELSE {NoneVal}

\* _error_result_to_exception: the exception job.result() raises for a
\* job's error reason.
JobException(reason) ==
    IF reason = "notFound" THEN "NotFound" ELSE "BadRequest"

\* bigquery_client.load_table_from_uri(uri, table_id, job_config): the job
\* is inserted.  The insert itself is refused (NotFound, no job) or accepted
\* when the destination dataset does not exist: refused.
blob_to_bigquery_table_submit(bucket_name, blob_name, table_id) ==
    \E refused \in BOOLEAN :
      LET args == <<bucket_name, blob_name, table_id>>
          job == [uri |-> <<bucket_name, blob_name>>,
                  destination |-> table_id,
                  source_live |-> <<bucket_name, blob_name>> \in DOMAIN blobs,
                  state |-> "RUNNING", error |-> NoneVal]
      IN
      /\ pc = "idle"
      /\ Len(bq_jobs) < MaxJobs
      /\ refused => table_id[1] \notin DOMAIN bq_datasets
      /\ IF refused
         THEN /\ last' = Call("gcs.blob_to_bigquery_table", args, "NotFound",
                              NoneVal, Presence(table_id \in DOMAIN bq_tables))
              /\ UNCHANGED <<pc, frame, bq_jobs>>
         ELSE /\ bq_jobs' = Append(bq_jobs, job)
              /\ pc' = "blob_to_bigquery_table.result"
              /\ frame' = [args |-> args, job |-> Len(bq_jobs) + 1,
                           jobs_before |-> Len(bq_jobs),
                           pre |-> Presence(table_id \in DOMAIN bq_tables)]
              /\ last' = last
      /\ UNCHANGED <<bq_datasets, bq_tables, bq_clock, pubsubVars, gcsVars,
                     btVars, redis, k8sVars,
                   zipVars>>

\* The backend runs a load job to its end: a successful load appends the
\* object's rows to the table.
bq_job_runs(j) ==
    /\ j \in 1..Len(bq_jobs)
    /\ bq_jobs[j].state = "RUNNING"
    /\ \E outcome \in LoadOutcomes(bq_jobs[j]) :
         /\ bq_jobs' = [bq_jobs EXCEPT ![j].state = "DONE",
                                       ![j].error = outcome]
         /\ bq_tables' = IF outcome = NoneVal
                         THEN [bq_tables EXCEPT
                                 ![bq_jobs[j].destination].rows = @ + 1]
                         ELSE bq_tables
    /\ UNCHANGED <<pc, frame, last, bq_datasets, bq_clock, pubsubVars,
                   gcsVars, btVars, redis, k8sVars,
                   zipVars>>

\* A mutation of LoadJobDone: the helper does not wait for the job.
LoadJobNotAwaited(job) == TRUE

\* load_job.result() blocks until the job is done.
LoadJobDone(job) == job.state = "DONE"

\* load_job.result() and the return: returns when the job is done, raising
\* the job's error if it has one.  The job is not submitted again.
blob_to_bigquery_table_result ==
    /\ pc = "blob_to_bigquery_table.result"
    /\ LoadJobDone(bq_jobs[frame.job])
    /\ last' = Call("gcs.blob_to_bigquery_table", frame.args,
                    IF bq_jobs[frame.job].error = NoneVal THEN "ok"
                    ELSE JobException(bq_jobs[frame.job].error),
                    NoneVal, frame.pre)
               @@ [job |-> frame.job,
                   submitted |-> Len(bq_jobs) - frame.jobs_before]
    /\ pc' = "idle"
    /\ frame' = NoneVal
    /\ UNCHANGED <<bqVars, pubsubVars, gcsVars, btVars, redis, k8sVars,
                   zipVars>>

---------------------------------------------------------------------------
(* Bigtable: BigtableClientHelper (src/bigtable.py).  instance.create()    *)
(* starts a long-running operation that the helper does not wait on.       *)

InstanceCreate(instance_id) ==
    IF instance_id \in DOMAIN bt_instances
    THEN [status |-> "AlreadyExists", value |-> NoneVal,
          instances |-> bt_instances]
    ELSE [status |-> "ok", value |-> instance_id,
          instances |-> Put(bt_instances, instance_id, "CREATING")]

bt_create_instance(instance_id) ==
    LET r == InstanceCreate(instance_id) IN
    /\ pc = "idle"
    /\ bt_instances' = r.instances
    /\ last' = Call("bt.create_instance", <<instance_id>>, r.status, r.value,
                    Presence(instance_id \in DOMAIN bt_instances))
    /\ UNCHANGED <<pc, frame, bqVars, pubsubVars, gcsVars, bt_tables, redis,
                   k8sVars,
                   zipVars>>

\* The backend finishes provisioning a Bigtable instance.
bt_backend_step(instance_id) ==
    /\ instance_id \in DOMAIN bt_instances
    /\ bt_instances[instance_id] = "CREATING"
    /\ bt_instances' = [bt_instances EXCEPT ![instance_id] = "READY"]
    /\ UNCHANGED <<pc, frame, last, bqVars, pubsubVars, gcsVars, bt_tables,
                   redis, k8sVars,
                   zipVars>>

\* instance.delete(): NotFound when absent; the instance goes with its tables.
InstanceDelete(instance_id) ==
    IF instance_id \notin DOMAIN bt_instances
    THEN [status |-> "NotFound", instances |-> bt_instances,
          tables |-> bt_tables]
    ELSE [status |-> "ok", instances |-> Remove(bt_instances, instance_id),
          tables |-> {t \in bt_tables : t[1] # instance_id}]

bt_delete_instance(instance_id) ==
    LET r == InstanceDelete(instance_id) IN
    /\ pc = "idle"
    /\ bt_instances' = r.instances
    /\ bt_tables' = r.tables
    /\ last' = Call("bt.delete_instance", <<instance_id>>, r.status, NoneVal,
                    Presence(instance_id \in DOMAIN bt_instances))
    /\ UNCHANGED <<pc, frame, bqVars, pubsubVars, gcsVars, redis, k8sVars,
                   zipVars>>

\* table.create(column_families=...): NotFound without the instance,
\* AlreadyExists when the table exists.  What the backend answers while the
\* instance is still being provisioned is not fixed by the helper: ready.
TableCreate(instance_id, table_id, ready) ==
    IF instance_id \notin DOMAIN bt_instances
    THEN [status |-> "NotFound", value |-> NoneVal, tables |-> bt_tables]
    ELSE IF <<instance_id, table_id>> \in bt_tables
    THEN [status |-> "AlreadyExists", value |-> NoneVal, tables |-> bt_tables]
    ELSE IF ~ready
    THEN [status |-> "FailedPrecondition", value |-> NoneVal,
          tables |-> bt_tables]
    ELSE [status |-> "ok", value |-> <<instance_id, table_id>>,
          tables |-> bt_tables \cup {<<instance_id, table_id>>}]

bt_create_table(instance_id, table_id) ==
    \E ready \in BOOLEAN :
      LET r == TableCreate(instance_id, table_id, ready) IN
      /\ pc = "idle"
      /\ instance_id \in DOMAIN bt_instances
           => (bt_instances[instance_id] = "READY" => ready)
      /\ bt_tables' = r.tables
      /\ last' = Call("bt.create_table", <<instance_id, table_id>>, r.status,
                      r.value, Presence(<<instance_id, table_id>> \in bt_tables))
      /\ UNCHANGED <<pc, frame, bqVars, pubsubVars, gcsVars, bt_instances,
                     redis, k8sVars,
                   zipVars>>

TableDelete(instance_id, table_id) ==
    IF <<instance_id, table_id>> \notin bt_tables
    THEN [status |-> "NotFound", tables |-> bt_tables]
    ELSE [status |-> "ok", tables |-> bt_tables \ {<<instance_id, table_id>>}]

bt_delete_table(instance_id, table_id) ==
    LET r == TableDelete(instance_id, table_id) IN
    /\ pc = "idle"
    /\ bt_tables' = r.tables
    /\ last' = Call("bt.delete_table", <<instance_id, table_id>>, r.status,
                    NoneVal, Presence(<<instance_id, table_id>> \in bt_tables))
    /\ UNCHANGED <<pc, frame, bqVars, pubsubVars, gcsVars, bt_instances, redis,
                   k8sVars,
                   zipVars>>

---------------------------------------------------------------------------
(* Memorystore: MemorystoreClientHelper (src/redis.py).  Creation and      *)
(* deletion are long-running backend operations.  create_instance waits on *)
(* its operation (operation.result()); delete_instance drops the operation *)
(* it is handed and returns at once.                                       *)

\* client.create_instance(...): AlreadyExists while an instance of that id
\* exists in any state; otherwise provisioning starts.
redis_create_instance_call(instance_id, tier, memory_size_gb) ==
    /\ pc = "idle"
    /\ IF instance_id \in DOMAIN redis
       THEN /\ last' = Call("redis.create_instance", <<instance_id>>,
                            "AlreadyExists", NoneVal, "Present")
            /\ UNCHANGED <<pc, frame, redis>>
       ELSE /\ redis' = Put(redis, instance_id,
                            [state |-> "CREATING", tier |-> tier,
                             memory_size_gb |-> memory_size_gb])
            /\ pc' = "redis.create_instance.result"
            /\ frame' = [instance_id |-> instance_id]
            /\ last' = last
    /\ UNCHANGED <<bqVars, pubsubVars, gcsVars, btVars, k8sVars,
                   zipVars>>

\* operation.result().to_dict(): returns once the operation is done.
redis_create_instance_return ==
    /\ pc = "redis.create_instance.result"
    /\ frame.instance_id \in DOMAIN redis
    /\ redis[frame.instance_id].state = "READY"
    /\ pc' = "idle"
    /\ frame' = NoneVal
    /\ last' = Call("redis.create_instance", <<frame.instance_id>>, "ok",
                    redis[frame.instance_id], "Absent")
    /\ UNCHANGED <<bqVars, pubsubVars, gcsVars, btVars, redis, k8sVars,
                   zipVars>>

\* The backend finishes a provisioning or a deletion.
redis_backend_step(instance_id) ==
    /\ instance_id \in DOMAIN redis
    /\ \/ /\ redis[instance_id].state = "CREATING"
          /\ redis' = [redis EXCEPT ![instance_id].state = "READY"]
       \/ /\ redis[instance_id].state = "DELETING"
          /\ redis' = Remove(redis, instance_id)
    /\ UNCHANGED <<pc, frame, last, bqVars, pubsubVars, gcsVars, btVars,
                   k8sVars,
                   zipVars>>

\* client.delete_instance(name=name): NotFound when absent; otherwise the
\* deletion starts and the call returns on submission.  What the backend
\* answers for an instance already being deleted is not fixed by the
\* helper: accepted.
ClientDeleteInstance(instance_id, accepted) ==
    IF instance_id \notin DOMAIN redis
    THEN [status |-> "NotFound", redis |-> redis]
    ELSE IF redis[instance_id].state = "DELETING"
    THEN [status |-> IF accepted THEN "ok" ELSE "FailedPrecondition",
          redis |-> redis]
    ELSE [status |-> "ok",
          redis |-> [redis EXCEPT ![instance_id].state = "DELETING"]]

redis_delete_instance(instance_id) ==
    \E accepted \in BOOLEAN :
      LET r == ClientDeleteInstance(instance_id, accepted) IN
      /\ pc = "idle"
      /\ (instance_id \in DOMAIN redis
            => redis[instance_id].state # "DELETING") => accepted
      /\ redis' = r.redis
      /\ last' = Call("redis.delete_instance", <<instance_id>>, r.status,
                      NoneVal, Presence(instance_id \in DOMAIN redis))
      /\ UNCHANGED <<pc, frame, bqVars, pubsubVars, gcsVars, btVars, k8sVars,
                   zipVars>>

\* get_instance: the describe of the cache; NotFound when absent, else the
\* instance as the backend holds it, its state included.
redis_get_instance(instance_id) ==
    /\ pc = "idle"
    /\ last' = IF instance_id \in DOMAIN redis
               THEN Call("redis.get_instance", <<instance_id>>, "ok",
                         redis[instance_id], "Present")
               ELSE Call("redis.get_instance", <<instance_id>>, "NotFound",
                         NoneVal, "Absent")
    /\ UNCHANGED <<pc, frame, bqVars, pubsubVars, gcsVars, btVars, redis,
                   k8sVars,
                   zipVars>>

---------------------------------------------------------------------------
(* Kubernetes: KubernetesClientHelper (src/kubernetes.py).  The API server *)
(* answers 409 Conflict to a create of an existing name and 404 NotFound   *)
(* to a delete of an absent one; the helper passes both on.                *)

NameOf(manifest) == manifest.name

CreateNamespaced(existing, namespace, manifest) ==
    IF <<namespace, NameOf(manifest)>> \in existing
    THEN [status |-> "ApiException409", value |-> NoneVal, set |-> existing]
    ELSE [status |-> "ok", value |-> manifest,
          set |-> existing \cup {<<namespace, NameOf(manifest)>>}]

DeleteNamespaced(existing, namespace, name) ==
    IF <<namespace, name>> \notin existing
    THEN [status |-> "ApiException404", set |-> existing]
    ELSE [status |-> "ok", set |-> existing \ {<<namespace, name>>}]

create_pod(namespace, pod_manifest) ==
    LET r == CreateNamespaced(pods, namespace, pod_manifest) IN
    /\ pc = "idle"
    /\ pods' = r.set
    /\ last' = Call("k8s.create_pod", <<namespace, NameOf(pod_manifest)>>,
                    r.status, r.value,
                    Presence(<<namespace, NameOf(pod_manifest)>> \in pods))
    /\ UNCHANGED <<pc, frame, bqVars, pubsubVars, gcsVars, btVars, redis,
                   deployments,
                   zipVars>>

delete_pod(namespace, pod_name) ==
    LET r == DeleteNamespaced(pods, namespace, pod_name) IN
    /\ pc = "idle"
    /\ pods' = r.set
    /\ last' = Call("k8s.delete_pod", <<namespace, pod_name>>, r.status,
                    NoneVal, Presence(<<namespace, pod_name>> \in pods))
    /\ UNCHANGED <<pc, frame, bqVars, pubsubVars, gcsVars, btVars, redis,
                   deployments,
                   zipVars>>

create_deployment(namespace, deployment_manifest) ==
    LET r == CreateNamespaced(deployments, namespace, deployment_manifest) IN
    /\ pc = "idle"
    /\ deployments' = r.set
    /\ last' = Call("k8s.create_deployment",
                    <<namespace, NameOf(deployment_manifest)>>, r.status,
                    r.value,
                    Presence(<<namespace, NameOf(deployment_manifest)>>
                               \in deployments))
    /\ UNCHANGED <<pc, frame, bqVars, pubsubVars, gcsVars, btVars, redis, pods,
                   zipVars>>

delete_deployment(namespace, deployment_name) ==
    LET r == DeleteNamespaced(deployments, namespace, deployment_name) IN
    /\ pc = "idle"
    /\ deployments' = r.set
    /\ last' = Call("k8s.delete_deployment", <<namespace, deployment_name>>,
                    r.status, NoneVal,
                    Presence(<<namespace, deployment_name>> \in deployments))
    /\ UNCHANGED <<pc, frame, bqVars, pubsubVars, gcsVars, btVars, redis, pods,
                   zipVars>>

---------------------------------------------------------------------------
(* Archive staging: ZipExtractor (src/utils.py).  A byte stream is one of  *)
(* three kinds: "garbage" (no end-of-central-directory record), "eocd"     *)
(* (such a record is found but the central directory it points at is not   *)
(* readable) and "zip" (a well-formed archive).  A path is the sequence of *)
(* its segments from the filesystem root.                                  *)

WellFormed(zip_object) == zip_object.kind = "zip"

\* zipfile.is_zipfile: true when an end-of-central-directory record is found.
is_zipfile(zip_object) == zip_object.kind # "garbage"

check_is_zipfile(zip_object) ==
    IF is_zipfile(zip_object) THEN TRUE ELSE FALSE

\* ZipExtractor(zip_object, folder_file_path).  The validation is an assert
\* statement: it is compiled out when the interpreter runs optimised.
ZipExtractor_init(zip_object, folder_file_path, asserts_enabled) ==
    /\ pc = "idle"
    /\ IF asserts_enabled /\ ~(check_is_zipfile(zip_object) = TRUE)
       THEN /\ extractor' = NoExtractor
            /\ last' = Call("zip.__init__", <<zip_object, folder_file_path>>,
                            "AssertionError", NoneVal, "n/a")
       ELSE /\ extractor' = [bound |-> TRUE, zip_object |-> zip_object,
                             folder_file_path |-> folder_file_path]
            /\ last' = Call("zip.__init__", <<zip_object, folder_file_path>>,
                            "ok", NoneVal, "n/a")
    /\ UNCHANGED <<pc, frame, bqVars, pubsubVars, gcsVars, btVars, redis,
                   k8sVars, fs_dirs, fs_files>>

\* zipfile.ZipFile(zip_object, "r"): reads the central directory.
ZipFile(zip_object) ==
    IF WellFormed(zip_object)
    THEN [status |-> "ok", namelist |-> zip_object.names]
    ELSE [status |-> "BadZipFile", namelist |-> NoneVal]

unzip_object ==
    /\ pc = "idle"
    /\ extractor.bound
    /\ last' = Call("zip.unzip_object", <<>>,
                    ZipFile(extractor.zip_object).status,
                    ZipFile(extractor.zip_object).namelist, "n/a")
    /\ UNCHANGED <<pc, frame, bqVars, pubsubVars, gcsVars, btVars, redis,
                   k8sVars, zipVars>>

list_extracted_files ==
    /\ pc = "idle"
    /\ extractor.bound
    /\ last' = Call("zip.list_extracted_files", <<>>,
                    ZipFile(extractor.zip_object).status,
                    ZipFile(extractor.zip_object).namelist, "n/a")
    /\ UNCHANGED <<pc, frame, bqVars, pubsubVars, gcsVars, btVars, redis,
                   k8sVars, zipVars>>

\* The path the operating system resolves a sequence of segments to: ".."
\* steps to the parent, and the parent of the filesystem root is the root.
RECURSIVE ResolveFrom(_, _)
ResolveFrom(segments, resolved) ==
    IF segments = <<>> THEN resolved
    ELSE ResolveFrom(Tail(segments),
                     IF Head(segments) = ".."
                     THEN IF resolved = <<>> THEN resolved
                          ELSE SubSeq(resolved, 1, Len(resolved) - 1)
                     ELSE Append(resolved, Head(segments)))

RealPath(path) == ResolveFrom(path, <<>>)

\* os.path.dirname
Dirname(path) == SubSeq(path, 1, Len(path) - 1)

IsDir(path) == path = <<>> \/ path \in fs_dirs
IsFile(path) == path \in DOMAIN fs_files

\* The directories named by the leading segments of a path, outermost first.
Prefixes(path) == [i \in 1..Len(path) |-> RealPath(SubSeq(path, 1, i))]

\* os.makedirs(name, exist_ok=True): creates, outermost first, every
\* directory that is missing; stops at a segment that is a file.
Makedirs(name) ==
    LET chain   == Prefixes(name)
        blocked == {i \in 1..Len(chain) : IsFile(chain[i])}
        upto    == IF blocked = {} THEN Len(chain)
                   ELSE (CHOOSE i \in blocked : \A j \in blocked : i <= j) - 1
    IN  [status |-> IF blocked = {} THEN "ok" ELSE "FileExistsError",
         dirs   |-> fs_dirs \cup ({chain[i] : i \in 1..upto} \ {<<>>})]

\* open(file, "w" / "wb") on the directories dirs: creates or truncates.
Open(file, dirs) ==
    IF \E i \in 1..(Len(file) - 1) : IsFile(RealPath(SubSeq(file, 1, i)))
        THEN "NotADirectoryError"
    ELSE IF \E i \in 1..(Len(file) - 1) :
                 /\ RealPath(SubSeq(file, 1, i)) # <<>>
                 /\ RealPath(SubSeq(file, 1, i)) \notin dirs
        THEN "FileNotFoundError"
    ELSE IF RealPath(file) = <<>> \/ RealPath(file) \in dirs
        THEN "IsADirectoryError"
    ELSE "ok"

write_string_to_file(file, string) ==
    /\ pc = "idle"
    /\ extractor.bound
    /\ LET opened == Open(file, fs_dirs) IN
        /\ fs_files' = IF opened = "ok" THEN Put(fs_files, RealPath(file), string)
                       ELSE fs_files
        /\ last' = Call("zip.write_string_to_file", <<file, string>>, opened,
                        NoneVal, Presence(IsFile(RealPath(file))))
    /\ UNCHANGED <<pc, frame, bqVars, pubsubVars, gcsVars, btVars, redis,
                   k8sVars, extractor, fs_dirs>>

write_bytes_to_binary_file(file_bytes, file_name) ==
    /\ pc = "idle"
    /\ extractor.bound
    /\ LET made   == Makedirs(Dirname(file_name))
           opened == IF made.status = "ok" THEN Open(file_name, made.dirs)
                     ELSE made.status
       IN
        /\ fs_dirs' = made.dirs
        /\ fs_files' = IF opened = "ok"
                       THEN Put(fs_files, RealPath(file_name), file_bytes)
                       ELSE fs_files
        /\ last' = Call("zip.write_bytes_to_binary_file",
                        <<file_bytes, file_name>>, opened, NoneVal,
                        Presence(IsFile(RealPath(file_name))))
    /\ UNCHANGED <<pc, frame, bqVars, pubsubVars, gcsVars, btVars, redis,
                   k8sVars, extractor>>

---------------------------------------------------------------------------
(* Inputs.                                                                 *)

DatasetIds      == {"d1"}
TableNames      == {"t1"}
Schemas         == {"id:INT64", "id:INT64,name:STRING"}
PartitionFields == {NoneVal, "ts"}
ClusterFields   == {NoneVal, "id"}
Queries         == {"SELECT 1", "SELECT 2"}
TopicIds        == {"tp1"}
SubscriptionIds == {"sb1"}
BucketNames     == {"b1", "b2"}
BlobNames       == {"o1"}
Contents        == {"1,x", "2,y"}
InstanceIds     == {"i1"}
BtTableIds      == {"bt1"}
Tiers           == {"BASIC"}
MemorySizes     == {1}
Namespaces      == {"default"}
Manifests       == {[name |-> "web"]}

---------------------------------------------------------------------------
(* The warehouse helper alone.                                             *)

NextWarehouse ==
    \/ \E d \in DatasetIds : bq_create_dataset(d)
    \/ \E d \in DatasetIds, c \in BOOLEAN : bq_delete_dataset(d, c)
    \/ \E d \in DatasetIds, t \in TableNames, sc \in Schemas,
          p \in PartitionFields, c \in ClusterFields :
            bq_create_table(d, t, sc, p, c)
    \/ \E d \in DatasetIds, t \in TableNames : bq_delete_table(d, t)
    \/ \E d \in DatasetIds, t \in TableNames, q \in Queries :
            bq_create_view(d, t, q)
    \/ \E d \in DatasetIds, t \in TableNames : bq_delete_view(d, t)

SpecWarehouse == Init /\ [][NextWarehouse]_vars

---------------------------------------------------------------------------
(* The lifecycle operations of the helpers that pass the backend's answer  *)
(* on: Pub/Sub, Cloud Storage, Bigtable, Memorystore, Kubernetes.          *)

NextLifecycle ==
    \/ \E t \in TopicIds : create_topic(t)
    \/ \E t \in TopicIds : delete_topic(t)
    \/ \E t \in TopicIds, sb \in SubscriptionIds : create_subscription(t, sb)
    \/ \E sb \in SubscriptionIds : delete_subscription(sb)
    \/ create_bucket("b1")
    \/ delete_bucket("b1")
    \/ \E i \in InstanceIds : bt_create_instance(i)
    \/ \E i \in InstanceIds : bt_backend_step(i)
    \/ \E i \in InstanceIds : bt_delete_instance(i)
    \/ \E i \in InstanceIds, t \in BtTableIds : bt_create_table(i, t)
    \/ \E i \in InstanceIds, t \in BtTableIds : bt_delete_table(i, t)
    \/ \E i \in InstanceIds, t \in Tiers, m \in MemorySizes :
            redis_create_instance_call(i, t, m)
    \/ redis_create_instance_return
    \/ \E i \in InstanceIds : redis_backend_step(i)
    \/ \E i \in InstanceIds : redis_delete_instance(i)
    \/ \E n \in Namespaces, m \in Manifests : create_pod(n, m)
    \/ \E n \in Namespaces, m \in Manifests : delete_pod(n, NameOf(m))
    \/ \E n \in Namespaces, m \in Manifests : create_deployment(n, m)
    \/ \E n \in Namespaces, m \in Manifests : delete_deployment(n, NameOf(m))

SpecLifecycle == Init /\ [][NextLifecycle]_vars

---------------------------------------------------------------------------
(* The cache helper alone, with its describe (get_instance).               *)

CacheIds == {"i1", "i2"}

NextCache ==
    \/ \E i \in CacheIds, t \in Tiers, m \in MemorySizes :
            redis_create_instance_call(i, t, m)
    \/ redis_create_instance_return
    \/ \E i \in CacheIds : redis_backend_step(i)
    \/ \E i \in CacheIds : redis_delete_instance(i)
    \/ \E i \in CacheIds : redis_get_instance(i)

SpecCache == Init /\ [][NextCache]_vars

---------------------------------------------------------------------------
(* Claims about the lifecycle operations.                                  *)

CreateOps ==
    {"bq.create_dataset", "bq.create_table", "bq.create_view",
     "pubsub.create_topic", "pubsub.create_subscription", "gcs.create_bucket",
     "bt.create_instance", "bt.create_table", "redis.create_instance",
     "k8s.create_pod", "k8s.create_deployment"}

DeleteOps ==
    {"bq.delete_dataset", "bq.delete_table", "bq.delete_view",
     "pubsub.delete_topic", "pubsub.delete_subscription", "gcs.delete_bucket",
     "bt.delete_instance", "bt.delete_table", "redis.delete_instance",
     "k8s.delete_pod", "k8s.delete_deployment"}

WarehouseCreateOps == {"bq.create_dataset", "bq.create_table", "bq.create_view"}

\* C1: in every backend family, a create of a resource that is already
\* Present returns successfully (it never raises because of the existence).
C1_CreateOnPresentSucceeds ==
    (last.op \in CreateOps /\ last.pre = "Present") => last.status = "ok"

\* C2: in every backend family, a delete of a resource that is Absent
\* succeeds silently (the second of two deletes included).
C2_DeleteOnAbsentSucceeds ==
    (last.op \in DeleteOps /\ last.pre = "Absent") => last.status = "ok"

\* This call repeats the call before it (same method, same arguments), and
\* that call succeeded.
Repeats(c) == c.prev = <<c.op, c.args, "ok">>

\* C3: a warehouse create that repeats the successful create before it
\* (same identity, same spec) succeeds, returns a handle equal to the one
\* the first call returned, and leaves every stored dataset, table and view
\* (schema, partitioning, clustering, version) as it was.
C3_WarehouseCreateIdempotent ==
    [][(last'.op \in WarehouseCreateOps /\ Repeats(last'))
         => /\ last'.status = "ok"
            /\ last'.value = last.value
            /\ bq_datasets' = bq_datasets
            /\ bq_tables' = bq_tables]_vars

\* A partitioned, clustered table was created twice in a row, and so was a
\* dataset or a view.
C3_Witness ==
    /\ last.op = "bq.create_table"
    /\ Repeats(last)
    /\ last.status = "ok"
    /\ last.args[4] # NoneVal
    /\ last.args[5] # NoneVal
    /\ <<last.args[1], last.args[2]>> \in DOMAIN bq_tables

\* C4: a describe issued right after a create that returned successfully
\* sees the resource Present and ready, and a describe issued right after a
\* delete that returned successfully sees it Absent; here for the cache
\* instance.
C4_NoIntermediateStateObserved ==
    /\ (last.op = "redis.get_instance"
          /\ last.prev = <<"redis.create_instance", last.args, "ok">>)
         => (last.status = "ok" /\ last.value.state = "READY")
    /\ (last.op = "redis.get_instance"
          /\ last.prev = <<"redis.delete_instance", last.args, "ok">>)
         => last.status = "NotFound"

---------------------------------------------------------------------------
(* The Pub/Sub helper alone.                                               *)

Payloads       == {"hello", "bye"}
MaxMessagesIn  == {1, 2, 10}

NextPubSub ==
    \/ \E t \in TopicIds : create_topic(t)
    \/ \E t \in TopicIds : delete_topic(t)
    \/ \E t \in TopicIds, sb \in SubscriptionIds : create_subscription(t, sb)
    \/ \E sb \in SubscriptionIds : delete_subscription(sb)
    \/ \E t \in TopicIds, m \in Payloads : publish_message(t, m)
    \/ \E sb \in SubscriptionIds, n \in MaxMessagesIn :
            pull_messages_pull(sb, n)
    \/ pull_messages_acknowledge
    \/ caller_consumes
    \/ process_stops

SpecPubSub == Init /\ [][NextPubSub]_vars

---------------------------------------------------------------------------
(* Claims about pull_messages.                                             *)

\* C9: when pull_messages returns, the returned list has at most
\* max_messages payloads, the ack ids sent to the broker are exactly the ack
\* ids received in that pull, one per returned payload, and the broker holds
\* every delivery of the batch as acknowledged (none is outstanding).
C9_PullAcksExactlyWhatItReturns ==
    pc = "pull_messages.returned" =>
        /\ last.op = "pubsub.pull_messages" /\ last.status = "ok"
        /\ Len(last.value) <= frame.max_messages
        /\ Range(frame.ack_ids)
             = {frame.received_messages[i].ack_id :
                    i \in 1..Len(frame.received_messages)}
        /\ Len(frame.ack_ids) = Len(last.value)
        /\ Cardinality(Range(frame.ack_ids)) = Len(last.value)
        /\ \A i \in 1..Len(frame.received_messages) :
             /\ frame.received_messages[i].ack_id \in acked
             /\ frame.received_messages[i].ack_id \notin backlog
             /\ last.value[i] = Decode(frame.received_messages[i].message.data)

\* pull_messages returned a batch of two payloads with max_messages = 2.
C9_Witness ==
    /\ pc = "pull_messages.returned"
    /\ frame.max_messages = 2
    /\ Len(last.value) = 2

\* C10: a delivery that pull_messages returned and that was dropped because
\* the process stopped before the caller consumed it is acknowledged at the
\* broker, was never processed by the caller, is no longer outstanding, and
\* is in no batch a later pull received.
C10_StoppedAfterAckLosesMessage ==
    \A x \in lost :
        /\ x \in acked
        /\ x \notin processed
        /\ x \notin backlog
        /\ pc \in {"pull_messages.acknowledge", "pull_messages.returned"}
             => x \notin Delivered(frame)

\* A message was lost, and a later pull on the same subscription returned a
\* batch (without it).
C10_Witness ==
    /\ pc = "pull_messages.returned"
    /\ \E x \in lost : x[1] = frame.subscription_id

\* How many times a payload occurs in a returned sequence.
Occurrences(payload, returned) ==
    Cardinality({i \in 1..Len(returned) : returned[i] = payload})

\* The last completed call is a pull with max_messages = 10 on a
\* subscription that was handed the single message published so far, and the
\* call before it was the publish_message that returned that message's id.
PullAfterSinglePublish ==
    /\ last.op = "pubsub.pull_messages"
    /\ last.args[2] = 10
    /\ Len(published) = 1
    /\ last.prev[1] = "pubsub.publish_message"
    /\ last.prev[3] = "ok"
    /\ <<last.args[1], 1>> \in backlog \cup acked

---------------------------------------------------------------------------
(* The storage helper's move_blob, with the operations that feed it.       *)

NextMove ==
    \/ \E b \in BucketNames : create_bucket(b)
    \/ \E b \in BucketNames : delete_bucket(b)
    \/ \E b \in BucketNames, c \in Contents, n \in BlobNames :
            upload_blob(b, c, n)
    \/ \E b \in BucketNames, n \in BlobNames, db \in BucketNames,
          dn \in BlobNames : move_blob_copy(b, n, db, dn)
    \/ move_blob_delete
    \/ process_stops

SpecMove == Init /\ [][NextMove]_vars

---------------------------------------------------------------------------
(* The storage helper's blob_to_bigquery_table, with the operations that   *)
(* create its source object and its destination table.                     *)

NextLoad ==
    \/ \E d \in DatasetIds : bq_create_dataset(d)
    \/ \E d \in DatasetIds, t \in TableNames, sc \in Schemas :
            bq_create_table(d, t, sc, NoneVal, NoneVal)
    \/ \E d \in DatasetIds, t \in TableNames : bq_delete_table(d, t)
    \/ create_bucket("b1")
    \/ \E c \in Contents \cup {"1"} : upload_blob("b1", c, "o1")
    \/ \E d \in DatasetIds, t \in TableNames :
            blob_to_bigquery_table_submit("b1", "o1", <<d, t>>)
    \/ \E j \in 1..MaxJobs : bq_job_runs(j)
    \/ blob_to_bigquery_table_result
    \/ process_stops

SpecLoad == Init /\ [][NextLoad]_vars

---------------------------------------------------------------------------
(* Claims about data movement.                                             *)

\* The move whose copy succeeded and whose source delete did not happen:
\* the caller is between the two steps, or the process stopped there, or
\* the delete failed.
MoveHalfDone ==
    \/ pc = "move_blob.delete"
    \/ last.op = "process.stop" /\ last.args = <<"move_blob.delete">>
    \/ last.op = "gcs.move_blob" /\ last.status = "ServiceUnavailable"

HalfDoneMove == IF pc = "move_blob.delete" THEN frame ELSE last.value

\* C5: after the copy of move_blob succeeded and before its source delete
\* took effect (the caller is between the two steps, the process was
\* stopped there, or the delete failed), the source object and the
\* destination object are both Present and the destination holds the
\* source's content: nothing in move_blob undid the copy.
C5_MoveLeavesBothWhenInterrupted ==
    MoveHalfDone =>
        /\ HalfDoneMove.source \in DOMAIN blobs
        /\ HalfDoneMove.destination \in DOMAIN blobs
        /\ blobs[HalfDoneMove.source] = HalfDoneMove.content
        /\ blobs[HalfDoneMove.destination] = HalfDoneMove.content

\* The process stopped between the copy and the delete of a move between
\* two different objects: both exist.
C5_Witness ==
    /\ last.op = "process.stop"
    /\ last.args = <<"move_blob.delete">>
    /\ pc = "idle"
    /\ last.value.source # last.value.destination
    /\ last.value.source \in DOMAIN blobs
    /\ last.value.destination \in DOMAIN blobs

\* C14: whenever move_blob returns successfully, the destination object is
\* Present and holds the content the source object held before the call
\* (also when destination bucket and name equal the source's).
C14_MoveKeepsTheData ==
    (last.op = "gcs.move_blob" /\ last.status = "ok")
        => /\ last.value.destination \in DOMAIN blobs
           /\ blobs[last.value.destination] = last.value.content

\* C6: no data-movement operation performs a mutating backend step for a
\* source object that does not exist when it is called: no load job is
\* submitted for it, and the call fails with a not-found error.
C6_NoStepForAbsentSource ==
    /\ \A j \in 1..Len(bq_jobs) : bq_jobs[j].source_live
    /\ (last.op = "gcs.move_blob" /\ last.pre = "Absent")
         => last.status = "NotFound"

\* C7: blob_to_bigquery_table called with a table identity that is Absent
\* fails with a not-found error, and the table is still Absent.
C7_LoadIntoAbsentTableIsNotFound ==
    (last.op = "gcs.blob_to_bigquery_table" /\ last.pre = "Absent")
        => /\ last.status = "NotFound"
           /\ last.args[3] \notin DOMAIN bq_tables

\* The completed blob_to_bigquery_table call that submitted a job.
LoadCompleted ==
    /\ last.op = "gcs.blob_to_bigquery_table"
    /\ "job" \in DOMAIN last

\* C8: when blob_to_bigquery_table returns or raises after submitting its
\* load job, the job is in its terminal state; the call returns normally
\* exactly when the job succeeded, raises the job's own failure when it
\* failed, and has submitted one job only.
C8_LoadReturnsAfterJobDone ==
    LoadCompleted =>
        /\ bq_jobs[last.job].state = "DONE"
        /\ (last.status = "ok") = (bq_jobs[last.job].error = NoneVal)
        /\ last.status # "ok"
             => last.status = JobException(bq_jobs[last.job].error)
        /\ last.submitted = 1

\* A load returned normally after its job succeeded and the rows are in the
\* table; and a load raised its job's failure.
C8_Witness ==
    /\ LoadCompleted
    /\ last.status = "ok"
    /\ bq_jobs[last.job].state = "DONE"
    /\ \E j \in 1..Len(bq_jobs) : bq_jobs[j].error # NoneVal

---------------------------------------------------------------------------
(* The archive extractor alone.  The caller names the files it writes by   *)
(* joining the extractor's folder with an entry name.                      *)

StagingRoot == <<"stage">>
Folders     == {StagingRoot}
EntryNames  == {<<"a.txt">>, <<"sub">>, <<"sub", "a.txt">>,
                <<"..", "evil.txt">>, <<"sub", "..", "..", "evil.txt">>}
Streams     == {[kind |-> "garbage", names |-> <<>>],
                [kind |-> "eocd", names |-> <<>>],
                [kind |-> "zip", names |-> <<<<"a.txt">>, <<"..", "evil.txt">>>>]}
FileBytes   == {"0xCAFE"}
Strings     == {"text"}

NextZip ==
    \/ \E z \in Streams, f \in Folders, a \in BOOLEAN : ZipExtractor_init(z, f, a)
    \/ unzip_object
    \/ list_extracted_files
    \/ \E e \in EntryNames, f \in Folders, b \in FileBytes :
            write_bytes_to_binary_file(b, f \o e)
    \/ \E e \in EntryNames, f \in Folders, t \in Strings :
            write_string_to_file(f \o e, t)

SpecZip == Init /\ [][NextZip]_vars

---------------------------------------------------------------------------
(* Claims about the archive extractor.                                     *)

\* C12: a byte stream that is not a well-formed archive never yields an
\* extractor: the constructor fails for it, so whenever an extractor exists
\* its stream is a well-formed archive, and no construction from a stream
\* that is not a well-formed archive ends successfully.
C12_NoExtractorForMalformedStream ==
    /\ extractor.bound => WellFormed(extractor.zip_object)
    /\ (last.op = "zip.__init__" /\ ~WellFormed(last.args[1]))
            => last.status # "ok"

\* The path lies in the directory root or below it.
Within(path, root) ==
    /\ Len(path) >= Len(root)
    /\ SubSeq(path, 1, Len(root)) = root

\* C13: writing an entry whose destination resolves outside the staging root
\* fails with a path-traversal error, and no file or directory the extractor
\* created lies outside the staging root.
C13_NothingWrittenOutsideStagingRoot ==
    /\ \A p \in fs_dirs \cup DOMAIN fs_files : Within(p, StagingRoot)
    /\ (/\ last.op = "zip.write_bytes_to_binary_file"
        /\ ~Within(RealPath(last.args[2]), StagingRoot))
            => last.status = "PathTraversalError"

===========================================================================
